---- MODULE Spec2Model ----
(***************************************************************************)
(* The order/payment state machine of the storefront backend               *)
(* (routes/payment.js): order creation, client-driven signature            *)
(* verification, the direct-transfer (UPI) verification path, the payment  *)
(* status read and the gateway webhook.                                    *)
(*                                                                         *)
(* Every handler is an async function that suspends at each store or       *)
(* gateway call.  A handler that loads an Order with findById and later    *)
(* calls save() is therefore two steps: the step that ends with the load   *)
(* (all validation and early returns included) and the step that starts    *)
(* after it (the assignments, save() and the response).  Other requests    *)
(* run between the two.  save() on a loaded document sends the paths       *)
(* whose value differs from the loaded one, as one update of that          *)
(* document, with no condition on the stored values.                       *)
(*                                                                         *)
(* Spec runs the handlers of up to NumHandlers requests interleaved.       *)
(* SpecSerial runs the same handlers one request at a time and keeps the   *)
(* history of the last request that ended.  SpecRace interleaves only      *)
(* order creation, client verification with the gateway's signature and    *)
(* payment.captured deliveries.  SpecOrders interleaves the three routes   *)
(* that create Orders (create-order, create-upi-payment and POST           *)
(* /user/orders) over carts around the free-shipping threshold.            *)
(***************************************************************************)
EXTENDS Integers, Sequences, FiniteSets, TLC

\* ------------------------------------------------------------------ bounds
MaxOrders == 2
MaxRequests == 3
NumHandlers == 2

\* ------------------------------------------------------------- value sets
Users == {"alice", "bob"}
Anonymous == "anonymous"
Actors == Users \cup {Anonymous}

OrderIds == 1 .. MaxOrders
NoId == 0
PaymentIds == {1, 2}
Handlers == 1 .. NumHandlers

\* RAZORPAY_KEY_SECRET is configured in every run; RAZORPAY_WEBHOOK_SECRET may
\* be missing (webhookSecretSet)
KeySecret == "key_secret"
WebhookSecret == "webhook_secret"
ForgedSecret == "not_the_secret"

\* crypto.createHmac('sha256', key).update(message).digest('hex'): the tag is
\* determined by key and message, and different (key, message) pairs give
\* different tags.
Hmac(key, message) == <<key, message>>

\* The literal the UPI page sends in place of a signature; it is the digest of
\* nothing.
ManualVerification == <<"manual_verification", <<>>>>
NoSignature == <<"", <<>>>>

\* razorpay_order_id + '|' + razorpay_payment_id
PaymentBody(razorpay_order_id, razorpay_payment_id) ==
    <<razorpay_order_id, "|", razorpay_payment_id>>

ItemLists == { <<>>, <<[price |-> 100, quantity |-> 1]>> }

\* req.body.shippingAddress as the checkout page sends it, and one with a
\* field left empty
CompleteAddress ==
    [fullName |-> "A", address |-> "1 Road", city |-> "Pune", state |-> "MH",
     zipCode |-> "411001", country |-> "India"]
Addresses == {CompleteAddress, [CompleteAddress EXCEPT !.city = ""]}

NoOrder == [exists |-> FALSE]
NoRequest == [kind |-> "none"]
NoResponse == [code |-> 0, message |-> "none", data |-> NoOrder]
NoLast == [req |-> NoRequest, before |-> NoOrder, after |-> NoOrder,
           resp |-> NoResponse, rep |-> FALSE]

VARIABLES
    orders,            \* the Order collection: order id -> document or NoOrder
    webhookSecretSet,  \* process.env.RAZORPAY_WEBHOOK_SECRET is configured
    serial,            \* the host takes the next request when the last has ended
    pc,                \* per handler: where the request in flight is suspended
    req,               \* per handler: the request in flight
    doc,               \* per handler: the document findById returned
    nreq,              \* requests started so far
    authentic,         \* history: orders for which a signature check matched
    last,              \* history, kept when serial: the last request that ran
                       \* to its response, the document it loaded, the stored
                       \* document and the response when it ended, and whether
                       \* it repeated the request before it on the state that
                       \* one left
    cart               \* user -> the user document's cart: a sequence of lines

vars == <<orders, webhookSecretSet, serial, pc, req, doc, nreq, authentic, last,
          cart>>

\* ------------------------------------------------------------ order totals
\* items.reduce((sum, item) => sum + item.price * item.quantity, 0)
RECURSIVE Subtotal(_)
Subtotal(items) ==
    IF items = <<>> THEN 0
    ELSE Head(items).price * Head(items).quantity + Subtotal(Tail(items))

\* the threshold taken as "50 or more"
ShippingFromFifty(subtotal) == IF subtotal >= 50 THEN 0 ELSE 10

\* subtotal > 50 ? 0 : 10
Shipping(subtotal) == IF subtotal > 50 THEN 0 ELSE 10

\* subtotal + shipping + subtotal * 0.1, held in tenths of the currency unit
TotalAmount(items) ==
    10 * Subtotal(items) + 10 * Shipping(Subtotal(items)) + Subtotal(items)

\* ------------------------------------------------------------ Order store
\* new Order({user, items, totalAmount, shippingAddress, paymentMethod,
\*            paymentStatus: 'pending', status: 'pending', upiVPA})
NewOrder(user, items, paymentMethod, upiVPA) ==
    [exists |-> TRUE,
     user |-> user,
     items |-> items,
     totalAmount |-> TotalAmount(items),
     paymentMethod |-> paymentMethod,
     paymentStatus |-> "pending",
     status |-> "pending",
     upiVPA |-> upiVPA,
     razorpayOrderId |-> NoId,
     razorpayPaymentId |-> NoId,
     razorpaySignature |-> NoSignature]

\* Order.findById(id): the stored document, or null
FindById(id) == IF id \in OrderIds THEN orders[id] ELSE NoOrder

\* the _id a new document gets: one no stored document has
FreeIds == {id \in OrderIds : ~orders[id].exists}
NewId == CHOOSE id \in FreeIds : \A other \in FreeIds : id <= other

\* save() writing the whole document as the handler holds it
SaveWhole(stored, loaded, changed) == changed

\* the Order schema's validators, run by save() and Order.create before the
\* write: every line has quantity >= 1 and every shippingAddress field is
\* there and not empty
SchemaValid(items, shippingAddress) ==
    /\ \A i \in 1 .. Len(items) : items[i].quantity >= 1
    /\ \A field \in DOMAIN shippingAddress : shippingAddress[field] # ""

\* the gateway order requested before the Order is saved
InsertedLater(id, d) == orders

\* the first save() of a new document, and Order.create: the document is
\* stored under its _id
Inserted(id, d) == [orders EXCEPT ![id] = d]

\* order.save() of a loaded document: the paths whose value was changed since
\* the load are written over the stored document, whatever it holds now
Save(stored, loaded, changed) ==
    [path \in DOMAIN stored |->
        IF changed[path] # loaded[path] THEN changed[path] ELSE stored[path]]

\* the razorpayOrder.id the gateway returns for an order: unique per order
GatewayOrderId(id) == id

Respond(code, message, data) == [code |-> code, message |-> message, data |-> data]

\* what a request leaves behind when its response is sent
Finished(request, before, after, response) ==
    IF serial
    THEN [req |-> request, before |-> before, after |-> after, resp |-> response,
          rep |-> last.req = request /\ last.after = before]
    ELSE last

\* ------------------------------------------------------------------- Init
Start ==
    /\ orders = [id \in OrderIds |-> NoOrder]
    /\ webhookSecretSet \in BOOLEAN
    /\ pc = [h \in Handlers |-> "idle"]
    /\ req = [h \in Handlers |-> NoRequest]
    /\ doc = [h \in Handlers |-> NoOrder]
    /\ nreq = 0
    /\ authentic = {}
    /\ last = NoLast
    /\ cart = [u \in Users |-> <<>>]

Init == Start /\ serial = FALSE
InitSerial == Start /\ serial = TRUE

\* The request budget is not used up and h is the handler that takes the next
\* request: the first free one (which free one takes it makes no difference);
\* when serial, only once no request is in flight.
CanStart(h) ==
    /\ nreq < MaxRequests
    /\ pc[h] = "idle"
    /\ \A other \in Handlers : other < h => pc[other] # "idle"
    /\ serial => \A other \in Handlers : pc[other] = "idle"

\* the response is sent in the step that started the request
AnswersAtOnce(request, before, response) ==
    /\ last' = Finished(request, before,
                         IF request.order \in OrderIds
                         THEN orders'[request.order] ELSE NoOrder,
                         response)
    /\ UNCHANGED <<pc, req, doc>>

\* the request ends in the step that started it, and no cart is touched
EndsAtOnce(request, before, response) ==
    /\ AnswersAtOnce(request, before, response)
    /\ UNCHANGED cart

\* the request is turned away before any Order is looked up or stored; the
\* history keeps what it was for and the answer
Rejected(kind, id, response) ==
    EndsAtOnce([kind |-> kind, order |-> id], NoOrder, response)

\* the request suspends on a store or gateway call
Suspends(h, at, request, loaded) ==
    /\ pc' = [pc EXCEPT ![h] = at]
    /\ req' = [req EXCEPT ![h] = request]
    /\ doc' = [doc EXCEPT ![h] = loaded]
    /\ UNCHANGED <<last, cart>>

\* the suspended request resumes, runs to its response and frees the slot
Ends(h, response) ==
    /\ last' = Finished(req[h], doc[h],
                         IF req[h].order \in OrderIds
                         THEN orders'[req[h].order] ELSE NoOrder,
                         response)
    /\ pc' = [pc EXCEPT ![h] = "idle"]
    /\ req' = [req EXCEPT ![h] = NoRequest]
    /\ doc' = [doc EXCEPT ![h] = NoOrder]
    /\ UNCHANGED cart

\* the middleware letting every request through, as optionalAuth does
IsAuthenticatedOptional(actor) == TRUE

\* isAuthenticated: req.isAuthenticated() or 401
IsAuthenticated(actor) == actor \in Users

Unauthenticated ==
    Respond(401, "You must be logged in to access this resource", NoOrder)

\* an unknown order answered like another user's order
NotFoundAsDenied == Respond(403, "Access denied", NoOrder)

\* if (!order) return res.status(404)
NotFound == Respond(404, "Order not found", NoOrder)

\* ------------------------------------------------- POST /payment/create-order
CreateRequest(kind, actor, items, shippingAddress, upiVPA, id) ==
    [kind |-> kind, actor |-> actor, items |-> items,
     shippingAddress |-> shippingAddress, upiVPA |-> upiVPA, order |-> id]

\* the catch block's answer when save() or the gateway call threw
CreateFailed(kind) ==
    Respond(500,
            IF kind = "create-order" THEN "Failed to create order"
            ELSE "Failed to create UPI payment", NoOrder)

\* the handler up to the first order.save(): validation, then the pending
\* Order; save() throws when the schema rejects the document and whenever the
\* store fails
CreateOrder(h, actor, items, shippingAddress) ==
    /\ CanStart(h)
    /\ nreq' = nreq + 1
    /\ UNCHANGED <<webhookSecretSet, serial, authentic>>
    /\ IF ~IsAuthenticated(actor)
       THEN /\ UNCHANGED orders
            /\ Rejected("create-order", NoId, Unauthenticated)
       ELSE IF items = <<>>
       THEN /\ UNCHANGED orders
            /\ Rejected("create-order", NoId,
                        Respond(400, "Cart items are required", NoOrder))
       ELSE \/ /\ SchemaValid(items, shippingAddress)
               /\ FreeIds # {}
               /\ orders' = Inserted(NewId, NewOrder(actor, items, "razorpay", ""))
               /\ Suspends(h, "gateway",
                           CreateRequest("create-order", actor, items,
                                         shippingAddress, "", NewId),
                           NewOrder(actor, items, "razorpay", ""))
            \/ /\ UNCHANGED orders
               /\ Rejected("create-order", NoId, CreateFailed("create-order"))

\* -------------------------------------------- POST /payment/create-upi-payment
CreateUpiPayment(h, actor, items, shippingAddress, upiVPA) ==
    /\ CanStart(h)
    /\ nreq' = nreq + 1
    /\ UNCHANGED <<webhookSecretSet, serial, authentic>>
    /\ IF ~IsAuthenticated(actor)
       THEN /\ UNCHANGED orders
            /\ Rejected("create-upi-payment", NoId, Unauthenticated)
       ELSE IF items = <<>>
       THEN /\ UNCHANGED orders
            /\ Rejected("create-upi-payment", NoId,
                        Respond(400, "Cart items are required", NoOrder))
       ELSE IF upiVPA = ""
       THEN /\ UNCHANGED orders
            /\ Rejected("create-upi-payment", NoId,
                        Respond(400, "UPI VPA is required", NoOrder))
       ELSE \/ /\ SchemaValid(items, shippingAddress)
               /\ FreeIds # {}
               /\ orders' = Inserted(NewId, NewOrder(actor, items, "upi", upiVPA))
               /\ Suspends(h, "gateway",
                           CreateRequest("create-upi-payment", actor, items,
                                         shippingAddress, upiVPA, NewId),
                           NewOrder(actor, items, "upi", upiVPA))
            \/ /\ UNCHANGED orders
               /\ Rejected("create-upi-payment", NoId,
                           CreateFailed("create-upi-payment"))

\* the gateway reference not assigned
WithGatewayOrderUnset(d, id) == d

\* order.razorpayOrderId = razorpayOrder.id
WithGatewayOrder(d, id) == [d EXCEPT !.razorpayOrderId = GatewayOrderId(id)]

\* razorpay.orders.create returned: the reference is saved and the ids returned
GatewayOrderCreated(h) ==
    /\ pc[h] = "gateway"
    /\ orders' = [orders EXCEPT ![req[h].order] =
                    Save(@, doc[h], WithGatewayOrder(doc[h], req[h].order))]
    /\ Ends(h, Respond(200, "order created", WithGatewayOrder(doc[h], req[h].order)))
    /\ UNCHANGED <<webhookSecretSet, serial, nreq, authentic>>

\* a catch block that removes the Order it stored
GatewayOrderFailedRollback(h) ==
    /\ pc[h] = "gateway"
    /\ orders' = [orders EXCEPT ![req[h].order] = NoOrder]
    /\ Ends(h, CreateFailed(req[h].kind))
    /\ UNCHANGED <<webhookSecretSet, serial, nreq, authentic>>

\* razorpay.orders.create threw: the catch block answers 500
GatewayOrderFailed(h) ==
    /\ pc[h] = "gateway"
    /\ UNCHANGED orders
    /\ Ends(h, CreateFailed(req[h].kind))
    /\ UNCHANGED <<webhookSecretSet, serial, nreq, authentic>>

\* ----------------------------------------------- POST /payment/verify-payment
VerifyRequest(kind, actor, id, razorpay_order_id, razorpay_payment_id, razorpay_signature) ==
    [kind |-> kind, actor |-> actor, order |-> id,
     razorpay_order_id |-> razorpay_order_id,
     razorpay_payment_id |-> razorpay_payment_id,
     razorpay_signature |-> razorpay_signature]

\* createHmac('sha256', RAZORPAY_KEY_SECRET).update(body).digest('hex')
ExpectedSignature(r) ==
    Hmac(KeySecret, PaymentBody(r.razorpay_order_id, r.razorpay_payment_id))

\* the comparison that also lets the client's placeholder through
IsAuthenticOrManual(r) ==
    \/ ExpectedSignature(r) = r.razorpay_signature
    \/ r.razorpay_signature = ManualVerification

\* expectedSignature === razorpay_signature
IsAuthentic(r) == ExpectedSignature(r) = r.razorpay_signature

\* the verified branch without the assignment of razorpaySignature
PaymentVerifiedUnsigned(d, r) ==
    [d EXCEPT !.paymentStatus = "completed",
              !.status = "processing",
              !.razorpayPaymentId = r.razorpay_payment_id]

\* the verified branch also marking the Order as a gateway-card payment
PaymentVerifiedAsRazorpay(d, r) ==
    [d EXCEPT !.paymentStatus = "completed",
              !.status = "processing",
              !.razorpayPaymentId = r.razorpay_payment_id,
              !.razorpaySignature = r.razorpay_signature,
              !.paymentMethod = "razorpay"]

\* the verified branch without the assignment of status
PaymentVerifiedStatusKept(d, r) ==
    [d EXCEPT !.paymentStatus = "completed",
              !.razorpayPaymentId = r.razorpay_payment_id,
              !.razorpaySignature = r.razorpay_signature]

\* the assignments of the verified branch
PaymentVerified(d, r) ==
    [d EXCEPT !.paymentStatus = "completed",
              !.status = "processing",
              !.razorpayPaymentId = r.razorpay_payment_id,
              !.razorpaySignature = r.razorpay_signature]

\* the invalid-signature branch as verify-upi has it: nothing assigned
PaymentFailedUnsaved(d) == d

\* the assignment of the invalid-signature branch
PaymentFailed(d) == [d EXCEPT !.paymentStatus = "failed"]

\* the signatures a caller can send with the ids (g, p): the gateway's tag for
\* them when both are there, a string that is no tag, or none
SignatureChoices(g, p) ==
    {ManualVerification, NoSignature}
        \cup (IF g # NoId /\ p # NoId THEN {Hmac(KeySecret, PaymentBody(g, p))} ELSE {})

\* !razorpay_order_id || !razorpay_payment_id || !razorpay_signature
MissingParameters(r) ==
    \/ r.razorpay_order_id = NoId
    \/ r.razorpay_payment_id = NoId
    \/ r.razorpay_signature = NoSignature

\* what verify-payment assigns to the loaded document before save()
VerifyPaymentAssigns(d, r) ==
    IF IsAuthentic(r) THEN PaymentVerified(d, r) ELSE PaymentFailed(d)

\* the handler up to Order.findById
VerifyPayment(h, actor, id, g, p, sig) ==
    LET r == VerifyRequest("verify-payment", actor, id, g, p, sig) IN
    /\ CanStart(h)
    /\ nreq' = nreq + 1
    /\ UNCHANGED <<orders, webhookSecretSet, serial, authentic>>
    /\ IF ~IsAuthenticated(actor)
       THEN Rejected(r.kind, id, Unauthenticated)
       ELSE IF MissingParameters(r)
       THEN Rejected(r.kind, id,
                     Respond(400, "Missing payment verification parameters", NoOrder))
       ELSE IF ~FindById(id).exists
       THEN Rejected(r.kind, id, NotFound)
       ELSE Suspends(h, "verify-payment", r, FindById(id))

\* the handler after the load: signature check, assignments, save, response
VerifyPaymentSave(h) ==
    LET r == req[h]
        changed == VerifyPaymentAssigns(doc[h], r)
    IN
    /\ pc[h] = "verify-payment"
    /\ orders' = [orders EXCEPT ![r.order] = Save(@, doc[h], changed)]
    /\ authentic' = IF IsAuthentic(r) THEN authentic \cup {r.order} ELSE authentic
    /\ Ends(h, IF IsAuthentic(r)
               THEN Respond(200, "Payment verified successfully", changed)
               ELSE Respond(400, "Payment verification failed", NoOrder))
    /\ UNCHANGED <<webhookSecretSet, serial, nreq>>

\* ------------------------------------------- POST /payment/verify-upi/:orderId
\* the payment-method check left out
InvalidMethodUnchecked(d) == FALSE

\* order.paymentMethod !== 'upi'
InvalidMethod(d) == d.paymentMethod # "upi"

\* what verify-upi assigns to the loaded document: the verified branch, and
\* nothing in the else branch
VerifyUpiAssigns(d, r) ==
    IF IsAuthentic(r) THEN PaymentVerified(d, r) ELSE d

\* the handler up to Order.findById and the payment-method check
VerifyUpi(h, actor, id, g, p, sig) ==
    LET r == VerifyRequest("verify-upi", actor, id, g, p, sig) IN
    /\ CanStart(h)
    /\ nreq' = nreq + 1
    /\ UNCHANGED <<orders, webhookSecretSet, serial, authentic>>
    /\ IF ~IsAuthenticated(actor)
       THEN Rejected(r.kind, id, Unauthenticated)
       ELSE IF ~FindById(id).exists
       THEN Rejected(r.kind, id, NotFound)
       ELSE IF InvalidMethod(FindById(id))
       THEN EndsAtOnce(r, FindById(id),
                       Respond(400, "Invalid payment method for this order", NoOrder))
       ELSE Suspends(h, "verify-upi", r, FindById(id))

\* the handler after the load: a matching signature is saved, a mismatch is
\* only reported
VerifyUpiSave(h) ==
    LET r == req[h]
        changed == VerifyUpiAssigns(doc[h], r)
    IN
    /\ pc[h] = "verify-upi"
    /\ orders' = [orders EXCEPT ![r.order] = Save(@, doc[h], changed)]
    /\ authentic' = IF IsAuthentic(r) THEN authentic \cup {r.order} ELSE authentic
    /\ Ends(h, IF IsAuthentic(r)
               THEN Respond(200, "UPI payment verified successfully", changed)
               ELSE Respond(400, "Payment verification failed", NoOrder))
    /\ UNCHANGED <<webhookSecretSet, serial, nreq>>

\* --------------------------------------------- GET /payment/status/:orderId
StatusRequest(actor, id) == [kind |-> "status", actor |-> actor, order |-> id]

\* {paymentStatus, paymentMethod, orderStatus, totalAmount}
StatusOf(d) ==
    [exists |-> TRUE, paymentStatus |-> d.paymentStatus,
     paymentMethod |-> d.paymentMethod, orderStatus |-> d.status,
     totalAmount |-> d.totalAmount]

GetPaymentStatus(h, actor, id) ==
    LET r == StatusRequest(actor, id) IN
    /\ CanStart(h)
    /\ nreq' = nreq + 1
    /\ UNCHANGED <<orders, webhookSecretSet, serial, authentic>>
    /\ IF ~IsAuthenticated(actor)
       THEN Rejected(r.kind, id, Unauthenticated)
       ELSE IF ~FindById(id).exists
       THEN Rejected(r.kind, id, NotFound)
       ELSE IF FindById(id).user # actor
       THEN EndsAtOnce(r, FindById(id), Respond(403, "Access denied", NoOrder))
       ELSE EndsAtOnce(r, FindById(id), Respond(200, "status", StatusOf(FindById(id))))

\* ------------------------------------------- GET /payment/details/:paymentId
DetailsRequest(actor, paymentId) ==
    [kind |-> "details", actor |-> actor, order |-> NoId, payment |-> paymentId]

\* the handler up to razorpay.payments.fetch
GetPaymentDetails(h, actor, paymentId) ==
    LET r == DetailsRequest(actor, paymentId) IN
    /\ CanStart(h)
    /\ nreq' = nreq + 1
    /\ UNCHANGED <<orders, webhookSecretSet, serial, authentic>>
    /\ IF ~IsAuthenticated(actor)
       THEN Rejected(r.kind, NoId, Unauthenticated)
       ELSE Suspends(h, "details", r, NoOrder)

\* razorpay.payments.fetch returned: the payment is sent back
PaymentFetched(h) ==
    /\ pc[h] = "details"
    /\ Ends(h, Respond(200, "payment", NoOrder))
    /\ UNCHANGED <<orders, webhookSecretSet, serial, nreq, authentic>>

\* razorpay.payments.fetch threw: the catch block answers 500
PaymentFetchFailed(h) ==
    /\ pc[h] = "details"
    /\ Ends(h, Respond(500, "Failed to fetch payment details", NoOrder))
    /\ UNCHANGED <<orders, webhookSecretSet, serial, nreq, authentic>>

\* ----------------------------------------------------- POST /payment/webhook
\* The delivery as sent: the event, whether payload.payment.entity is there,
\* payload.payment.entity.notes.orderId, payload.payment.entity.id, and
\* whether the bytes are the compact serialization.
WebhookDelivery(event, entity, id, payment, compact) ==
    [event |-> event, entity |-> entity, order |-> id, payment |-> payment,
     compact |-> compact]

\* express.json() followed by JSON.stringify(req.body): the compact
\* serialization of the parsed body, whatever bytes were sent
Reserialized(raw) == [raw EXCEPT !.compact = TRUE]

\* the check under `if (webhookSecret)`
WebhookSignatureOk(raw, signature) ==
    webhookSecretSet => signature = Hmac(WebhookSecret, Reserialized(raw))

\* the x-razorpay-signature a sender can put on a delivery: the gateway's tag
\* over the bytes sent, a tag made without the secret, or no header
HeaderChoices(raw) ==
    {Hmac(WebhookSecret, raw), Hmac(ForgedSecret, raw), NoSignature}

\* what the handler reads of an accepted delivery: req.body.event,
\* payload.notes?.orderId and payload.id
WebhookRequest(raw) ==
    [kind |-> "webhook", event |-> raw.event, order |-> raw.order,
     payment |-> raw.payment]

\* the captured branch with the two status fields mixed up
PaymentCapturedSwapped(d, r) ==
    [d EXCEPT !.paymentStatus = "processing",
              !.status = "completed",
              !.razorpayPaymentId = r.payment]

\* the captured branch without the assignment of razorpayPaymentId
PaymentCapturedNoReference(d, r) ==
    [d EXCEPT !.paymentStatus = "completed",
              !.status = "processing"]

\* case 'payment.captured': the assignments under the guard
PaymentCaptured(d, r) ==
    [d EXCEPT !.paymentStatus = "completed",
              !.status = "processing",
              !.razorpayPaymentId = r.payment]

\* the captured guard without the paymentStatus test, as payment.failed has it
CapturedAppliesUnguarded(d) == d.exists

\* case 'payment.captured': order && order.paymentStatus !== 'completed'
CapturedApplies(d) == d.exists /\ d.paymentStatus # "completed"

\* case 'payment.failed': if (order)
FailedApplies(d) == d.exists

WebhookOk == Respond(200, "ok", NoOrder)

\* the handler up to Order.findById and the guard on the loaded document
Webhook(h, raw, signature) ==
    LET r == WebhookRequest(raw) IN
    /\ CanStart(h)
    /\ nreq' = nreq + 1
    /\ UNCHANGED <<orders, webhookSecretSet, serial>>
    /\ IF ~WebhookSignatureOk(raw, signature)
       THEN /\ Rejected(r.kind, r.order,
                        Respond(400, "Webhook signature verification failed", NoOrder))
            /\ UNCHANGED authentic
       ELSE /\ authentic' = IF webhookSecretSet /\ raw.entity /\ raw.order \in OrderIds
                            THEN authentic \cup {raw.order} ELSE authentic
            /\ IF ~raw.entity
               THEN Rejected(r.kind, r.order,
                             Respond(500, "Webhook handler failed", NoOrder))
               ELSE IF raw.event = "payment.captured" /\ raw.order # NoId
               THEN IF CapturedApplies(FindById(raw.order))
                    THEN Suspends(h, "webhook", r, FindById(raw.order))
                    ELSE EndsAtOnce(r, FindById(raw.order), WebhookOk)
               ELSE IF raw.event = "payment.failed" /\ raw.order # NoId
               THEN IF FailedApplies(FindById(raw.order))
                    THEN Suspends(h, "webhook", r, FindById(raw.order))
                    ELSE EndsAtOnce(r, FindById(raw.order), WebhookOk)
               ELSE EndsAtOnce(r, NoOrder, WebhookOk)

\* the handler after the load: the assignments, save and the acknowledgement
WebhookSave(h) ==
    LET r == req[h]
        changed == IF r.event = "payment.captured" THEN PaymentCaptured(doc[h], r)
                   ELSE PaymentFailed(doc[h])
    IN
    /\ pc[h] = "webhook"
    /\ orders' = [orders EXCEPT ![r.order] = Save(@, doc[h], changed)]
    /\ Ends(h, WebhookOk)
    /\ UNCHANGED <<webhookSecretSet, serial, nreq, authentic>>

\* ------------------------------------------------------- POST /user/orders
\* Order.create({user, items, totalAmount, shippingAddress, paymentMethod})
\* with totalAmount = items.reduce((sum, item) => sum + item.price *
\* item.quantity, 0); paymentStatus and status are the schema's defaults
UserOrder(user, items, paymentMethod) ==
    [NewOrder(user, items, paymentMethod, "") EXCEPT
        !.totalAmount = 10 * Subtotal(items)]

\* the handler; after Order.create it updates only the User document
CreateUserOrder(h, actor, items, shippingAddress, paymentMethod) ==
    /\ CanStart(h)
    /\ nreq' = nreq + 1
    /\ UNCHANGED <<webhookSecretSet, serial, authentic>>
    /\ IF ~IsAuthenticated(actor)
       THEN /\ UNCHANGED orders
            /\ Rejected("orders", NoId, Unauthenticated)
       ELSE IF items = <<>>
       THEN /\ UNCHANGED orders
            /\ Rejected("orders", NoId, Respond(400, "No items in order", NoOrder))
       ELSE \/ /\ SchemaValid(items, shippingAddress)
               /\ FreeIds # {}
               /\ orders' = Inserted(NewId, UserOrder(actor, items, paymentMethod))
               /\ cart' = [cart EXCEPT ![actor] = <<>>]
               /\ AnswersAtOnce([kind |-> "orders", actor |-> actor, items |-> items,
                                 paymentMethod |-> paymentMethod, order |-> NewId],
                             NoOrder,
                             Respond(201, "Order created successfully",
                                     UserOrder(actor, items, paymentMethod)))
            \/ /\ UNCHANGED orders
               /\ Rejected("orders", NoId,
                           Respond(500, "Error creating order", NoOrder))

\* ------------------------------------------------------------ specification
Events == {"payment.captured", "payment.failed", "order.paid"}
RequestOrderIds == OrderIds \cup {NoId}
RequestPaymentIds == PaymentIds \cup {NoId}
Handles == {"", "payer@bank"}

Deliveries ==
    {WebhookDelivery(e, en, id, p, c) :
        e \in Events, en \in BOOLEAN, id \in RequestOrderIds,
        p \in PaymentIds, c \in BOOLEAN}

Next ==
    \/ \E h \in Handlers, a \in Actors, items \in ItemLists, s \in Addresses :
          CreateOrder(h, a, items, s)
    \/ \E h \in Handlers, a \in Actors, items \in ItemLists, s \in Addresses,
          v \in Handles : CreateUpiPayment(h, a, items, s, v)
    \/ \E h \in Handlers : GatewayOrderCreated(h)
    \/ \E h \in Handlers : GatewayOrderFailed(h)
    \/ \E h \in Handlers, a \in Actors, id \in RequestOrderIds,
          g \in RequestOrderIds, p \in RequestPaymentIds :
          \E sig \in SignatureChoices(g, p) : VerifyPayment(h, a, id, g, p, sig)
    \/ \E h \in Handlers : VerifyPaymentSave(h)
    \/ \E h \in Handlers, a \in Actors, id \in RequestOrderIds,
          g \in RequestOrderIds, p \in RequestPaymentIds :
          \E sig \in SignatureChoices(g, p) : VerifyUpi(h, a, id, g, p, sig)
    \/ \E h \in Handlers : VerifyUpiSave(h)
    \/ \E h \in Handlers, a \in Actors, id \in RequestOrderIds : GetPaymentStatus(h, a, id)
    \/ \E h \in Handlers, raw \in Deliveries :
          \E signature \in HeaderChoices(raw) : Webhook(h, raw, signature)
    \/ \E h \in Handlers : WebhookSave(h)

Spec == Init /\ [][Next]_vars

SpecSerial == InitSerial /\ [][Next]_vars

\* creation, client verification carrying the gateway's signature for the ids
\* it sends, and payment.captured deliveries carrying the gateway's signature
NextRace ==
    \/ \E h \in Handlers, a \in Users, items \in ItemLists \ {<<>>} :
          CreateOrder(h, a, items, CompleteAddress)
    \/ \E h \in Handlers : GatewayOrderCreated(h)
    \/ \E h \in Handlers, a \in Users, id \in OrderIds, g \in OrderIds, p \in PaymentIds :
          VerifyPayment(h, a, id, g, p, Hmac(KeySecret, PaymentBody(g, p)))
    \/ \E h \in Handlers : VerifyPaymentSave(h)
    \/ \E h \in Handlers, id \in OrderIds, p \in PaymentIds, c \in BOOLEAN :
          Webhook(h, WebhookDelivery("payment.captured", TRUE, id, p, c),
                  Hmac(WebhookSecret, WebhookDelivery("payment.captured", TRUE, id, p, c)))
    \/ \E h \in Handlers : WebhookSave(h)

SpecRace == Init /\ [][NextRace]_vars

\* the routes behind isAuthenticated
NextAccess ==
    \/ \E h \in Handlers, a \in Actors, items \in ItemLists, s \in Addresses :
          CreateOrder(h, a, items, s)
    \/ \E h \in Handlers, a \in Actors, items \in ItemLists, s \in Addresses,
          v \in Handles : CreateUpiPayment(h, a, items, s, v)
    \/ \E h \in Handlers : GatewayOrderCreated(h)
    \/ \E h \in Handlers : GatewayOrderFailed(h)
    \/ \E h \in Handlers, a \in Actors, id \in RequestOrderIds,
          g \in RequestOrderIds, p \in RequestPaymentIds :
          \E sig \in SignatureChoices(g, p) : VerifyPayment(h, a, id, g, p, sig)
    \/ \E h \in Handlers : VerifyPaymentSave(h)
    \/ \E h \in Handlers, a \in Actors, id \in RequestOrderIds,
          g \in RequestOrderIds, p \in RequestPaymentIds :
          \E sig \in SignatureChoices(g, p) : VerifyUpi(h, a, id, g, p, sig)
    \/ \E h \in Handlers : VerifyUpiSave(h)
    \/ \E h \in Handlers, a \in Actors, id \in RequestOrderIds : GetPaymentStatus(h, a, id)
    \/ \E h \in Handlers, a \in Actors, p \in PaymentIds : GetPaymentDetails(h, a, p)
    \/ \E h \in Handlers : PaymentFetched(h)
    \/ \E h \in Handlers : PaymentFetchFailed(h)

SpecAccess == InitSerial /\ [][NextAccess]_vars

\* the line items a cart can hold around the free-shipping threshold
ThresholdItems ==
    { [price |-> 25, quantity |-> 1], [price |-> 25, quantity |-> 2],
      [price |-> 51, quantity |-> 1] }

\* the empty cart, carts of one line and carts of the same line twice:
\* subtotals 25, 50 and 51, and 50, 100 and 102
ThresholdItemLists ==
    {<<>>} \cup {<<a>> : a \in ThresholdItems} \cup {<<a, a>> : a \in ThresholdItems}

\* lines the client can send that no cart should hold
InvalidItems == { [price |-> -5, quantity |-> 1], [price |-> 25, quantity |-> 0] }

CartLists == ThresholdItemLists \cup {<<a>> : a \in InvalidItems}

PaymentMethods == {"razorpay", "upi"}

\* the three routes that create Orders, with the gateway's answers
NextOrders ==
    \/ \E h \in Handlers, a \in Actors, items \in CartLists, s \in Addresses :
          CreateOrder(h, a, items, s)
    \/ \E h \in Handlers, a \in Actors, items \in CartLists, s \in Addresses,
          v \in Handles : CreateUpiPayment(h, a, items, s, v)
    \/ \E h \in Handlers, a \in Actors, items \in CartLists, s \in Addresses,
          m \in PaymentMethods : CreateUserOrder(h, a, items, s, m)
    \/ \E h \in Handlers : GatewayOrderCreated(h)
    \/ \E h \in Handlers : GatewayOrderFailed(h)

SpecOrders == Init /\ [][NextOrders]_vars

\* ------------------------------------------------------- the user's cart
\* a field the request body does not carry
NoProduct == "none"

\* product ids as request bodies carry them: strings of hex digits, the same
\* id written in lower case and in upper case, and a second id
SentProductIds == {"5f3a", "5F3A", "77b1"}
SentBundleIds == {"b00c"}

\* the path's ObjectId type casting the string it is assigned: hex digits
\* are read in either case
CastObjectId(id) == CASE id = "5F3A" -> "5f3a" [] OTHER -> id

\* ObjectId.toString(): the hex digits in lower case, as the store holds them
ObjectIdToString(objectId) == objectId

\* the quantities a request body can carry
Quantities == {-1, 0, 1, 2}

\* the bodies of POST /user/cart, with and without a quantity
AddBodies ==
    [productId : SentProductIds \cup {NoProduct},
     bundleId : SentBundleIds \cup {NoProduct},
     quantity : Quantities]
    \cup [productId : SentProductIds \cup {NoProduct},
          bundleId : SentBundleIds \cup {NoProduct}]

\* const { productId, bundleId, quantity = 1 } = req.body
QuantityOrDefault(body) ==
    IF "quantity" \in DOMAIN body THEN body.quantity ELSE 1

\* the _id a pushed line gets: one no line has had
NewItemId == nreq + 1
ItemIds == 1 .. MaxRequests

\* user.cart.findIndex(item => (productId && item.productId?.toString() ===
\* productId) || (bundleId && item.bundleId?.toString() === bundleId)):
\* the lines the predicate picks
Matching(lines, productId, bundleId) ==
    {i \in 1 .. Len(lines) :
        \/ /\ productId # NoProduct
           /\ lines[i].productId # NoProduct
           /\ ObjectIdToString(lines[i].productId) = productId
        \/ /\ bundleId # NoProduct
           /\ lines[i].bundleId # NoProduct
           /\ ObjectIdToString(lines[i].bundleId) = bundleId}

\* the first index findIndex returns
ExistingItemIndex(lines, productId, bundleId) ==
    CHOOSE i \in Matching(lines, productId, bundleId) :
        \A j \in Matching(lines, productId, bundleId) : i <= j

\* user.cart.push({productId, bundleId, quantity}): the strings are cast by
\* the schema's ObjectId paths
CartLine(id, productId, bundleId, quantity) ==
    [id |-> id,
     productId |-> IF productId = NoProduct THEN NoProduct
                   ELSE CastObjectId(productId),
     bundleId |-> IF bundleId = NoProduct THEN NoProduct
                  ELSE CastObjectId(bundleId),
     quantity |-> quantity]

\* userSchema.cart quantity: {type: Number, default: 1, min: 1}, checked by
\* user.save()
CartValid(lines) == \A i \in 1 .. Len(lines) : lines[i].quantity >= 1

\* user.cart.id(itemId): the indexes of the line with that _id
WithId(lines, itemId) == {i \in 1 .. Len(lines) : lines[i].id = itemId}

\* user.cart.pull(itemId): the lines without that _id, in order
RECURSIVE Pull(_, _)
Pull(lines, itemId) ==
    IF lines = <<>> THEN <<>>
    ELSE IF Head(lines).id = itemId THEN Pull(Tail(lines), itemId)
    ELSE <<Head(lines)>> \o Pull(Tail(lines), itemId)

\* a cart request runs to its response while no other request is in flight;
\* the history keeps the user's cart before and after
CartAnswers(h, request, lines, response) ==
    /\ CanStart(h)
    /\ nreq' = nreq + 1
    /\ cart' = IF request.actor \in Users
               THEN [cart EXCEPT ![request.actor] = lines] ELSE cart
    /\ last' = Finished(request,
                         IF request.actor \in Users THEN cart[request.actor] ELSE <<>>,
                         IF request.actor \in Users THEN lines ELSE <<>>,
                         response)
    /\ UNCHANGED <<orders, webhookSecretSet, serial, pc, req, doc, authentic>>

CartOf(actor) == IF actor \in Users THEN cart[actor] ELSE <<>>

\* POST /user/cart
AddToCart(h, actor, body) ==
    LET request == [kind |-> "cart-add", actor |-> actor, body |-> body]
        lines == CartOf(actor)
        quantity == QuantityOrDefault(body)
        found == Matching(lines, body.productId, body.bundleId)
        index == ExistingItemIndex(lines, body.productId, body.bundleId)
        changed ==
            IF found # {}
            THEN [lines EXCEPT ![index].quantity = @ + quantity]
            ELSE Append(lines, CartLine(NewItemId, body.productId,
                                        body.bundleId, quantity))
    IN  IF ~IsAuthenticated(actor)
        THEN CartAnswers(h, request, lines, Unauthenticated)
        ELSE IF body.productId = NoProduct /\ body.bundleId = NoProduct
        THEN CartAnswers(h, request, lines,
                         Respond(400, "Product ID or Bundle ID is required", NoOrder))
        ELSE IF ~CartValid(changed)
        THEN CartAnswers(h, request, lines,
                         Respond(500, "Error adding to cart", NoOrder))
        ELSE CartAnswers(h, request, changed,
                         Respond(200, "Item added to cart", NoOrder))

\* PUT /user/cart/:itemId
UpdateCartItem(h, actor, itemId, quantity) ==
    LET request == [kind |-> "cart-update", actor |-> actor, itemId |-> itemId,
                    quantity |-> quantity]
        lines == CartOf(actor)
        cartItem == CHOOSE i \in WithId(lines, itemId) : TRUE
    IN  IF ~IsAuthenticated(actor)
        THEN CartAnswers(h, request, lines, Unauthenticated)
        ELSE IF quantity = 0 \/ quantity < 1
        THEN CartAnswers(h, request, lines,
                         Respond(400, "Invalid quantity", NoOrder))
        ELSE IF WithId(lines, itemId) = {}
        THEN CartAnswers(h, request, lines,
                         Respond(404, "Cart item not found", NoOrder))
        ELSE CartAnswers(h, request,
                         [lines EXCEPT ![cartItem].quantity = quantity],
                         Respond(200, "Cart updated", NoOrder))

\* DELETE /user/cart/:itemId
RemoveFromCart(h, actor, itemId) ==
    LET request == [kind |-> "cart-remove", actor |-> actor, itemId |-> itemId]
    IN  IF ~IsAuthenticated(actor)
        THEN CartAnswers(h, request, CartOf(actor), Unauthenticated)
        ELSE CartAnswers(h, request, Pull(CartOf(actor), itemId),
                         Respond(200, "Item removed from cart", NoOrder))

\* DELETE /user/cart
ClearCart(h, actor) ==
    LET request == [kind |-> "cart-clear", actor |-> actor]
    IN  IF ~IsAuthenticated(actor)
        THEN CartAnswers(h, request, CartOf(actor), Unauthenticated)
        ELSE CartAnswers(h, request, <<>>, Respond(200, "Cart cleared", NoOrder))

\* the cart routes, one request at a time
NextCart ==
    \/ \E h \in Handlers, a \in Actors, body \in AddBodies : AddToCart(h, a, body)
    \/ \E h \in Handlers, a \in Actors, itemId \in ItemIds, q \in Quantities :
          UpdateCartItem(h, a, itemId, q)
    \/ \E h \in Handlers, a \in Actors, itemId \in ItemIds : RemoveFromCart(h, a, itemId)
    \/ \E h \in Handlers, a \in Actors : ClearCart(h, a)

SpecCart == InitSerial /\ [][NextCart]_vars

\* ------------------------------------------------------------------ claims
\* the step ends the request handler h suspended at `at`
EndsHere(h, at) == pc[h] = at /\ pc'[h] = "idle"

Completed(id) == orders[id].exists /\ orders[id].paymentStatus = "completed"

\* C1: an Order is completed only if a gateway authenticity check passed for
\* it before: a verification whose signature equals the HMAC of the ids sent,
\* or a webhook whose signature was checked and matched.
C1_CompletedOnlyIfAuthentic ==
    \A id \in OrderIds : Completed(id) => id \in authentic

\* C2: once paymentStatus is completed or failed, no step changes it.
C2_TerminalIsFinal ==
    [][\A id \in OrderIds :
          (orders[id].exists /\ orders[id].paymentStatus \in {"completed", "failed"})
          => orders'[id].paymentStatus = orders[id].paymentStatus]_vars

\* C3: a payment.failed delivery that finds the Order completed leaves it
\* completed.
C3_FailedKeepsCompleted ==
    [][\A h \in Handlers :
          (/\ EndsHere(h, "webhook")
           /\ req[h].event = "payment.failed"
           /\ doc[h].paymentStatus = "completed")
          => orders'[req[h].order].paymentStatus = "completed"]_vars

\* C4: with a client verification carrying a valid signature and a
\* payment.captured delivery racing on an Order, the Order is completed when
\* either handler ends, and once completed it stays completed.
C4_RaceConverges ==
    [][/\ \A id \in OrderIds : Completed(id) => orders'[id].paymentStatus = "completed"
       /\ \A h \in Handlers :
             (EndsHere(h, "verify-payment") \/ EndsHere(h, "webhook"))
             => orders'[req[h].order].paymentStatus = "completed"]_vars

\* C4 witness: both handlers wrote the same Order, the delivery after the
\* verification although it had loaded the Order before it: the stored
\* signature is the verification's, the stored payment id the delivery's.
C4_Witness ==
    \E id \in OrderIds, g \in OrderIds :
        /\ Completed(id)
        /\ \A h \in Handlers : pc[h] = "idle"
        /\ orders[id].razorpaySignature = Hmac(KeySecret, PaymentBody(g, 1))
        /\ orders[id].razorpayPaymentId = 2

\* C5: a handler that changes paymentStatus when it ends changes the value
\* it loaded: no handler overwrites a value written after its load.
C5_NoLostUpdate ==
    [][\A h \in Handlers :
          (/\ EndsHere(h, "verify-payment") \/ EndsHere(h, "verify-upi")
                \/ EndsHere(h, "webhook")
           /\ orders'[req[h].order].paymentStatus # orders[req[h].order].paymentStatus)
          => orders[req[h].order].paymentStatus = doc[h].paymentStatus]_vars

\* C6: for an actor who is not the owner, GetPaymentStatus and VerifyPayment
\* answer 403, return no order data and leave the Order unchanged.
C6_OwnerOnly ==
    [][/\ \A h \in Handlers :
             (EndsHere(h, "verify-payment") /\ req[h].actor # doc[h].user)
             => (orders' = orders /\ last'.resp.code = 403
                 /\ last'.resp.data = NoOrder)
       /\ (/\ nreq' = nreq + 1
           /\ last'.req.kind = "status"
           /\ last'.before.exists
           /\ last'.req.actor # last'.before.user)
          => (orders' = orders /\ last'.resp.code = 403
              /\ last'.resp.data = NoOrder)]_vars

\* C7: VerifyPayment does not complete an Order with the gateway order id of
\* another Order: a request that completes the Order does not carry the
\* gateway order reference stored on a different Order.
C7_OwnGatewayOrderOnly ==
    [][\A h \in Handlers :
          (/\ EndsHere(h, "verify-payment")
           /\ orders[req[h].order].paymentStatus # "completed"
           /\ orders'[req[h].order].paymentStatus = "completed")
          => ~\E other \in OrderIds \ {req[h].order} :
                 /\ orders[other].exists
                 /\ orders[other].razorpayOrderId # orders[req[h].order].razorpayOrderId
                 /\ orders[other].razorpayOrderId = req[h].razorpay_order_id]_vars

\* the last request was a verify-payment that loaded its Order
VerifiedLast == last.req.kind = "verify-payment" /\ last.before.exists

SignatureMatches(r) ==
    r.razorpay_signature =
        Hmac(KeySecret, PaymentBody(r.razorpay_order_id, r.razorpay_payment_id))

\* C8: a VerifyPayment whose signature differs from the expected HMAC leaves
\* the Order failed and answers 400 "Payment verification failed".
C8_MismatchFails ==
    (VerifiedLast /\ ~SignatureMatches(last.req))
    => /\ last.after.paymentStatus = "failed"
       /\ last.resp = Respond(400, "Payment verification failed", NoOrder)

C8_Witness ==
    /\ VerifiedLast
    /\ ~SignatureMatches(last.req)
    /\ last.before.paymentStatus = "pending"
    /\ orders[last.req.order].paymentStatus = "failed"

\* C9: a VerifyPayment with a valid signature succeeds and leaves the Order
\* completed/processing with the payment id and signature sent; repeated on
\* the state the first call left, it succeeds again and changes nothing.
C9_VerifyIdempotent ==
    (VerifiedLast /\ SignatureMatches(last.req))
    => /\ last.resp.code = 200
       /\ last.after = [last.before EXCEPT
                           !.paymentStatus = "completed",
                           !.status = "processing",
                           !.razorpayPaymentId = last.req.razorpay_payment_id,
                           !.razorpaySignature = last.req.razorpay_signature]
       /\ last.rep => last.after = last.before

C9_Witness ==
    /\ VerifiedLast
    /\ SignatureMatches(last.req)
    /\ last.rep
    /\ last.resp.code = 200
    /\ orders[last.req.order] = last.after

\* the last request was a payment.captured delivery that loaded its Order
CapturedLast ==
    /\ last.req.kind = "webhook"
    /\ last.before.exists
    /\ last.req.event = "payment.captured"

\* C10: a payment.captured delivery that finds the Order completed changes no
\* field of it and is acknowledged; so does a delivery repeated on the state
\* the same delivery left.
C10_CapturedNoOp ==
    (CapturedLast /\ (last.before.paymentStatus = "completed" \/ last.rep))
    => /\ last.after = last.before
       /\ last.resp = WebhookOk

\* C10 witness: the delivery found an Order completed by client verification
\* under another payment id.
C10_Witness ==
    /\ CapturedLast
    /\ last.before.paymentStatus = "completed"
    /\ last.before.razorpaySignature # NoSignature
    /\ last.before.razorpayPaymentId # last.req.payment
    /\ last.resp = WebhookOk
    /\ orders[last.req.order] = last.before

\* C11: a webhook request whose signature header is not the HMAC of the
\* payload sent under the webhook secret (a tag made without the secret, or
\* no header) is answered 400 in the step that receives it, is not dispatched
\* to an event branch, and changes no Order.
C11_BadSignatureRejected ==
    [][\A h \in Handlers, raw \in Deliveries :
          \A signature \in HeaderChoices(raw) \ {Hmac(WebhookSecret, raw)} :
             Webhook(h, raw, signature)
             => /\ orders' = orders
                /\ pc' = pc
                /\ last'.resp.code = 400]_vars

\* C12: every delivery that is not rejected for its signature is answered
\* {status: "ok"}, and one that ends without a save (unrecognized kind, no or
\* unknown order id, captured on a completed Order) changes no Order.
C12_AcceptedAcknowledged ==
    [][/\ \A h \in Handlers : EndsHere(h, "webhook") => last'.resp = WebhookOk
       /\ (/\ nreq' = nreq + 1
           /\ pc' = pc
           /\ last'.req.kind = "webhook"
           /\ last'.resp.code # 400)
          => (last'.resp = WebhookOk /\ orders' = orders)]_vars

\* the last request was a verify-upi that loaded an Order
UpiVerifiedLast == last.req.kind = "verify-upi" /\ last.before.exists

\* the last request was a verify-upi for a upi Order carrying the placeholder
\* the client sends
SentinelLast ==
    /\ UpiVerifiedLast
    /\ last.before.paymentMethod = "upi"
    /\ last.req.razorpay_signature = ManualVerification

C14_SameAsVerifyPayment ==
    (UpiVerifiedLast /\ last.before.paymentMethod = "upi")
    => last.after = IF MissingParameters(last.req) THEN last.before
                    ELSE VerifyPaymentAssigns(last.before, last.req)

\* C15: verify-upi on an Order whose paymentMethod is not upi is answered 400
\* "Invalid payment method for this order", whatever the signature, and the
\* Order is left as it was.
C15_InvalidMethod ==
    (UpiVerifiedLast /\ last.before.paymentMethod # "upi")
    => /\ last.resp = Respond(400, "Invalid payment method for this order", NoOrder)
       /\ last.after = last.before

\* C15 witness: the request carried the gateway's signature for the ids of a
\* pending razorpay Order, which is still pending.
C15_Witness ==
    /\ UpiVerifiedLast
    /\ last.before.paymentMethod = "razorpay"
    /\ last.before.paymentStatus = "pending"
    /\ SignatureMatches(last.req)
    /\ last.req.razorpay_order_id = last.before.razorpayOrderId
    /\ last.resp.code = 400
    /\ orders[last.req.order] = last.before

\* C16: no step writes pending over another paymentStatus of a stored Order:
\* a completed (or failed) Order never becomes pending again.
C16_NeverBackToPending ==
    [][\A id \in OrderIds :
          (orders[id].exists /\ orders[id].paymentStatus # "pending")
          => orders'[id].paymentStatus # "pending"]_vars

\* C16 witness: an Order was completed while the request that created it is
\* still waiting for the gateway, holding the pending document it will save.
C16_Witness ==
    \E h \in Handlers :
        /\ pc[h] = "gateway"
        /\ doc[h].paymentStatus = "pending"
        /\ Completed(req[h].order)

\* C17: a creation request adds one Order under an id that was free, owned by
\* the actor, pending/pending, and when it succeeds the stored Order differs
\* from that only in the gateway order reference the gateway returned; no
\* other Order is changed by either step.
C17_CreatesOnePending ==
    [][\A h \in Handlers :
          /\ (pc[h] = "idle" /\ pc'[h] = "gateway")
             => /\ ~orders[req'[h].order].exists
                /\ orders'[req'[h].order].exists
                /\ orders'[req'[h].order].user = req'[h].actor
                /\ orders'[req'[h].order].paymentStatus = "pending"
                /\ orders'[req'[h].order].status = "pending"
                /\ \A other \in OrderIds \ {req'[h].order} :
                      orders'[other] = orders[other]
          /\ (EndsHere(h, "gateway") /\ last'.resp.code = 200)
             => /\ last'.resp.data.razorpayOrderId # NoId
                /\ orders'[req[h].order] =
                      [orders[req[h].order] EXCEPT
                          !.razorpayOrderId = last'.resp.data.razorpayOrderId]
                /\ orders'[req[h].order].user = req[h].actor
                /\ orders'[req[h].order].paymentStatus = "pending"
                /\ orders'[req[h].order].status = "pending"
                /\ \A other \in OrderIds \ {req[h].order} :
                      orders'[other] = orders[other]]_vars

\* C17 witness: a create-upi-payment succeeded next to an Order of the other
\* user, and its Order is stored pending with the gateway reference.
C17_Witness ==
    /\ last.req.kind = "create-upi-payment"
    /\ last.resp.code = 200
    /\ orders[last.req.order].user = last.req.actor
    /\ orders[last.req.order].paymentStatus = "pending"
    /\ orders[last.req.order].razorpayOrderId = last.resp.data.razorpayOrderId
    /\ \E other \in OrderIds :
          orders[other].exists /\ orders[other].user # last.req.actor

\* subtotal, shipping and tax of the claims, in tenths of the currency unit
RECURSIVE LineSum(_, _)
LineSum(items, n) ==
    IF n = 0 THEN 0 ELSE items[n].price * items[n].quantity + LineSum(items, n - 1)

ClaimedTotal(items) ==
    LET subtotal == LineSum(items, Len(items)) IN
    10 * subtotal + (IF subtotal > 50 THEN 0 ELSE 100) + subtotal

\* C18: create-order and create-upi-payment persist totalAmount = subtotal +
\* shipping + tax for a non-empty cart, with tax a tenth of the subtotal and
\* shipping 0 exactly when the subtotal is above 50 (10 at 50).
C18_TotalAmount ==
    [][\A h \in Handlers :
          (pc[h] = "idle" /\ pc'[h] = "gateway")
          => /\ req'[h].items # <<>>
             /\ orders'[req'[h].order].items = req'[h].items
             /\ orders'[req'[h].order].totalAmount = ClaimedTotal(req'[h].items)]_vars

\* C18 witness: a gateway-card Order and a direct-transfer Order with
\* subtotal 50, by one line and by two, both stored with total 65.0, and the
\* gateway has answered for both.
C18_Witness ==
    \E a \in OrderIds, b \in OrderIds :
        /\ orders[a].exists /\ orders[b].exists
        /\ orders[a].paymentMethod = "razorpay" /\ orders[b].paymentMethod = "upi"
        /\ orders[a].razorpayOrderId # NoId /\ orders[b].razorpayOrderId # NoId
        /\ Len(orders[a].items) = 1 /\ Len(orders[b].items) = 2
        /\ orders[a].totalAmount = 650 /\ orders[b].totalAmount = 650

\* C19: every stored Order has totalAmount = subtotal + shipping + tax of its
\* own line items, whichever route created it.
C19_EveryOrderTotal ==
    \A id \in OrderIds :
        orders[id].exists => orders[id].totalAmount = ClaimedTotal(orders[id].items)

\* C20: no step changes the totalAmount, line items, owner or paymentMethod
\* of a stored Order.
C20_CreationFieldsFrozen ==
    [][\A id \in OrderIds :
          orders[id].exists
          => /\ orders'[id].exists
             /\ orders'[id].totalAmount = orders[id].totalAmount
             /\ orders'[id].items = orders[id].items
             /\ orders'[id].user = orders[id].user
             /\ orders'[id].paymentMethod = orders[id].paymentMethod]_vars

\* C20 witness: a direct-transfer Order went through verify-payment with a
\* valid signature and then failed, and still has its method and total.
C20_Witness ==
    \E id \in OrderIds :
        /\ orders[id].exists
        /\ orders[id].paymentStatus = "failed"
        /\ orders[id].razorpaySignature # NoSignature
        /\ orders[id].paymentMethod = "upi"
        /\ orders[id].totalAmount = 1100

\* C21: a verify-payment with a matching signature that finds the Order
\* pending leaves it completed/processing with the payment id and signature
\* sent, and answers 200 with the Order as stored.
C21_VerifySuccess ==
    (VerifiedLast /\ SignatureMatches(last.req) /\ last.before.paymentStatus = "pending")
    => /\ last.after.paymentStatus = "completed"
       /\ last.after.status = "processing"
       /\ last.after.razorpayPaymentId = last.req.razorpay_payment_id
       /\ last.after.razorpaySignature = last.req.razorpay_signature
       /\ last.resp = Respond(200, "Payment verified successfully", last.after)

\* C21 witness: the owner verified a pending gateway-card Order with the
\* gateway order reference stored on it.
C21_Witness ==
    /\ VerifiedLast
    /\ SignatureMatches(last.req)
    /\ last.before.paymentStatus = "pending"
    /\ last.before.status = "pending"
    /\ last.before.paymentMethod = "razorpay"
    /\ last.req.actor = last.before.user
    /\ last.req.razorpay_order_id = last.before.razorpayOrderId
    /\ orders[last.req.order].paymentStatus = "completed"
    /\ last.resp.data = orders[last.req.order]

CreateKinds == {"create-order", "create-upi-payment"}

\* the last request was a creation whose gateway call failed
GatewayFailedLast ==
    /\ last.req.kind \in CreateKinds
    /\ last.before.exists
    /\ last.resp.code = 500

\* C26: when the gateway call of a creation fails, the request answers 500
\* and the Order it stored stays stored, pending/pending, without a gateway
\* order reference.
C26_GatewayFailureKeepsOrder ==
    GatewayFailedLast
    => /\ last.resp.message \in {"Failed to create order", "Failed to create UPI payment"}
       /\ last.after.exists
       /\ last.after = last.before
       /\ last.after.paymentStatus = "pending"
       /\ last.after.status = "pending"
       /\ last.after.razorpayOrderId = NoId

\* C26 witness: the Order of a failed create-order is in the store.
C26_Witness ==
    /\ GatewayFailedLast
    /\ last.req.kind = "create-order"
    /\ orders[last.req.order].exists
    /\ orders[last.req.order].user = last.req.actor
    /\ orders[last.req.order].paymentStatus = "pending"
    /\ orders[last.req.order].razorpayOrderId = NoId

\* C28: a stored Order is completed exactly when its status is processing,
\* and a completed Order has a gateway payment reference.
C28_CompletedIffProcessing ==
    \A id \in OrderIds :
        orders[id].exists
        => /\ (orders[id].paymentStatus = "completed") <=> (orders[id].status = "processing")
           /\ Completed(id) => orders[id].razorpayPaymentId # NoId

\* the last request was a delivery dispatched to an Order it found
WebhookLast == last.req.kind = "webhook" /\ last.before.exists

\* C29: a payment.captured delivery that finds the Order not completed leaves
\* it changed only in paymentStatus = completed, status = processing and the
\* delivery's payment id; a payment.failed delivery leaves it changed only in
\* paymentStatus = failed.
C29_WebhookEffect ==
    WebhookLast
    => /\ (last.req.event = "payment.captured" /\ last.before.paymentStatus # "completed")
          => last.after = [last.before EXCEPT !.paymentStatus = "completed",
                                              !.status = "processing",
                                              !.razorpayPaymentId = last.req.payment]
       /\ last.req.event = "payment.failed"
          => last.after = [last.before EXCEPT !.paymentStatus = "failed"]

\* C29 witness: a payment.captured delivery found the Order failed and left
\* it completed/processing under the delivery's payment id.
C29_Witness ==
    /\ WebhookLast
    /\ last.req.event = "payment.captured"
    /\ last.before.paymentStatus = "failed"
    /\ last.before.status = "pending"
    /\ orders[last.req.order].paymentStatus = "completed"
    /\ orders[last.req.order].status = "processing"
    /\ orders[last.req.order].razorpayPaymentId = last.req.payment

\* the step stores the Order of a creation request and calls the gateway
CallsGateway(h) == pc[h] = "idle" /\ pc'[h] = "gateway"

\* C22: a creation request stores an Order and calls the gateway only for
\* valid input: a cart that is not empty, every line with quantity >= 1 and a
\* price >= 0, a shipping address with no empty field and, on the transfer
\* path, a handle that is not empty.
C22_InvalidInputRejected ==
    [][\A h \in Handlers :
          CallsGateway(h)
          => /\ req'[h].items # <<>>
             /\ \A i \in 1 .. Len(req'[h].items) :
                   req'[h].items[i].quantity >= 1 /\ req'[h].items[i].price >= 0
             /\ \A field \in DOMAIN req'[h].shippingAddress :
                   req'[h].shippingAddress[field] # ""
             /\ req'[h].kind = "create-upi-payment" => req'[h].upiVPA # ""]_vars

\* C25: the gateway is called for a creation request only in the step that
\* stored its Order under a free id; a creation request that stores nothing
\* ends in the same step with an error and without a gateway call.
C25_GatewayAfterPersist ==
    [][/\ \A h \in Handlers :
             CallsGateway(h)
             => /\ ~orders[req'[h].order].exists
                /\ orders'[req'[h].order] = doc'[h]
                /\ doc'[h].exists
       /\ (nreq' = nreq + 1 /\ orders' = orders)
          => \A h \in Handlers : ~CallsGateway(h)
       /\ (nreq' = nreq + 1 /\ pc' = pc /\ last'.req.kind \in CreateKinds)
          => (orders' = orders /\ last'.resp.code \in {400, 401, 500})]_vars

\* C25 witness: a create-order ended with the catch block's 500 while the
\* store holds no Order and no request is waiting for the gateway.
C25_Witness ==
    /\ last.req = [kind |-> "create-order", order |-> NoId]
    /\ last.resp = CreateFailed("create-order")
    /\ \A id \in OrderIds : ~orders[id].exists
    /\ \A h \in Handlers : pc[h] = "idle"

\* the step answers at once with response and leaves the store and every
\* request in flight as they were
AnswersOnly(response) ==
    /\ last'.resp = response
    /\ orders' = orders
    /\ pc' = pc

\* C23: a verify-payment request of a logged-in user in which the gateway
\* order id, the payment id, the signature or the order id is missing is
\* answered 400 "Missing payment verification parameters" in the step that
\* receives it, before any lookup, and changes no Order.
C23_MissingFieldsRejected ==
    [][\A h \in Handlers, a \in Users, id \in RequestOrderIds,
          g \in RequestOrderIds, p \in RequestPaymentIds :
          \A sig \in SignatureChoices(g, p) :
             (/\ id = NoId \/ g = NoId \/ p = NoId \/ sig = NoSignature
              /\ VerifyPayment(h, a, id, g, p, sig))
             => AnswersOnly(Respond(400, "Missing payment verification parameters",
                                    NoOrder))]_vars

\* the step takes in a request and answers it at once
AnsweredAtOnce == nreq' = nreq + 1 /\ pc' = pc

\* C24: a verify-payment (with its three parameters there), a verify-upi or
\* a status request of a logged-in user for an order id that names no stored
\* Order is answered 404 "Order not found", no Order is created or changed,
\* and no such request goes on to the signature check.
C24_NotFound ==
    [][\A h \in Handlers :
          /\ (pc[h] = "idle" /\ pc'[h] \in {"verify-payment", "verify-upi"})
             => (FindById(req'[h].order).exists /\ doc'[h].exists)
          /\ (AnsweredAtOnce /\ ~FindById(last'.req.order).exists)
             => \A a \in Users :
                   (\/ /\ last'.req.kind = "verify-payment"
                       /\ \E g \in OrderIds, p \in PaymentIds :
                             \E sig \in SignatureChoices(g, p) \ {NoSignature} :
                                VerifyPayment(h, a, last'.req.order, g, p, sig)
                    \/ /\ last'.req.kind = "verify-upi"
                       /\ \E g \in RequestOrderIds, p \in RequestPaymentIds :
                             \E sig \in SignatureChoices(g, p) :
                                VerifyUpi(h, a, last'.req.order, g, p, sig)
                    \/ /\ last'.req.kind = "status"
                       /\ GetPaymentStatus(h, a, last'.req.order))
                   => /\ AnswersOnly(Respond(404, "Order not found", NoOrder))
                      /\ last'.resp.message \notin {"Payment verification failed",
                                                    "Access denied"}]_vars

\* C24 witness: a request for the id of no stored Order was answered 404
\* while another Order is in the store, unchanged.
C24_Witness ==
    /\ last.req.kind \in {"verify-payment", "verify-upi", "status"}
    /\ last.req.order \in OrderIds
    /\ ~orders[last.req.order].exists
    /\ last.resp.code = 404
    /\ \E id \in OrderIds : orders[id].exists /\ orders[id].paymentStatus = "pending"

\* C27: a request without a session to create-order, create-upi-payment,
\* verify-payment, verify-upi, status or details is answered 401 in the step
\* that receives it: it never enters its handler (so no request of an
\* anonymous caller waits for the store or the gateway), and no Order is
\* created or changed.
C27_SessionRequired ==
    [][\A h \in Handlers :
          /\ (pc[h] = "idle" /\ pc'[h] # "idle") => req'[h].actor \in Users
          /\ (AnsweredAtOnce
              /\ \/ /\ last'.req.kind = "create-order"
                    /\ \E items \in ItemLists, s \in Addresses :
                          CreateOrder(h, Anonymous, items, s)
                 \/ /\ last'.req.kind = "create-upi-payment"
                    /\ \E items \in ItemLists, s \in Addresses, v \in Handles :
                          CreateUpiPayment(h, Anonymous, items, s, v)
                 \/ /\ last'.req.kind = "verify-payment"
                    /\ \E g \in RequestOrderIds, p \in RequestPaymentIds :
                          \E sig \in SignatureChoices(g, p) :
                             VerifyPayment(h, Anonymous, last'.req.order, g, p, sig)
                 \/ /\ last'.req.kind = "verify-upi"
                    /\ \E g \in RequestOrderIds, p \in RequestPaymentIds :
                          \E sig \in SignatureChoices(g, p) :
                             VerifyUpi(h, Anonymous, last'.req.order, g, p, sig)
                 \/ /\ last'.req.kind = "status"
                    /\ GetPaymentStatus(h, Anonymous, last'.req.order)
                 \/ /\ last'.req.kind = "details"
                    /\ \E p \in PaymentIds : GetPaymentDetails(h, Anonymous, p))
             => AnswersOnly(Unauthenticated)]_vars

\* C27 witness: a request was answered 401 while a pending Order is in the
\* store, unchanged, and nothing is in flight.
C27_Witness ==
    /\ last.resp = Unauthenticated
    /\ last.req.order \in OrderIds
    /\ orders[last.req.order].exists
    /\ orders[last.req.order].paymentStatus = "pending"
    /\ \A h \in Handlers : pc[h] = "idle"

\* no two lines of the cart name the same product
OneLinePerProduct(lines) ==
    \A i, j \in 1 .. Len(lines) :
        (i # j /\ lines[i].productId # NoProduct)
            => lines[i].productId # lines[j].productId

\* the lines that hold the product the body names
LinesOfProduct(lines, body) ==
    {i \in 1 .. Len(lines) :
        /\ body.productId # NoProduct
        /\ lines[i].productId = CastObjectId(body.productId)}

\* the last request added a product a line of the cart already held, and was
\* accepted
AddedExistingLast ==
    /\ last.req.kind = "cart-add"
    /\ last.resp.code = 200
    /\ LinesOfProduct(last.before, last.req.body) # {}

\* C30: after any sequence of cart requests taken one at a time, every
\* user's cart holds at most one line per product id and every line has
\* quantity >= 1; an accepted add of a product the cart already holds adds
\* no line and raises that product's line by the requested quantity; and an
\* update with quantity < 1 is answered 400 with the cart as it was.
C30_CartInvariants ==
    /\ \A u \in Users : OneLinePerProduct(cart[u]) /\ CartValid(cart[u])
    /\ AddedExistingLast =>
          /\ Len(last.after) = Len(last.before)
          /\ \A i \in LinesOfProduct(last.before, last.req.body) :
                last.after[i].quantity
                    = last.before[i].quantity + QuantityOrDefault(last.req.body)
    /\ (last.req.kind = "cart-update" /\ last.req.actor \in Users
        /\ last.req.quantity < 1) =>
          /\ last.resp.code = 400
          /\ last.after = last.before

====
